---- MODULE Spec2Model ----
(***************************************************************************)
(* Booking / inventory / payment-webhook state machine of the game rental  *)
(* API.  The repository holds two builds of the service layer:             *)
(*   "simple"  - internal/service/booking_service.go:1-307 over            *)
(*               internal/repository/game_repo.go (ReserveStock and        *)
(*               ReleaseStock are single SQL updates) and the map-based    *)
(*               webhook of internal/service/category_service.go:324-372;  *)
(*   "partner" - internal/service/booking_service.go:309-586, the          *)
(*               read-then-write stock methods of                          *)
(*               internal/service/game_service.go:231-258 and the webhook  *)
(*               of internal/service/payment_service.go:161-206.           *)
(* The variable variant fixes the build a behaviour runs.                  *)
(***************************************************************************)
EXTENDS Integers, Sequences, FiniteSets, TLC

(***************************************************************************)
(* Bounds of the model.                                                    *)
(***************************************************************************)
MaxStock == 2
MaxQuantity == 1
MaxCalls == 3

Variants == {"simple", "partner"}
GameIDs == {"g1", "g2"}
Procs == {"p1", "p2"}
Quantities == 1..MaxQuantity

NoGame == "none"

VARIABLES
    variant,    \* the build whose code runs
    games,      \* table games: id -> row
    bookings,   \* table bookings: sequence of rows, the id is the index
    payments,   \* table payments: sequence of rows, the id is the index
    users,      \* table users: id -> row
    categories, \* table categories: sequence of rows, the id is the index
    disputes,   \* table disputes: sequence of rows, the id is the index
    svc,        \* per request: position inside gameService.ReserveStock/ReleaseStock
    req,        \* per request: position inside bookingService.Create/CreateBooking
    reserveOk,  \* units granted by reserve calls that returned nil
    reserveDec, \* units by which reserve calls lowered available_stock
    ret         \* the last call that returned: name, arguments, error

vars == <<variant, games, bookings, payments, users, categories, disputes, svc, req, reserveOk, reserveDec, ret>>

Min(a, b) == IF a < b THEN a ELSE b

NoRequest ==
    [pc |-> "idle", user |-> "none", game |-> NoGame, booking |-> 0, start |-> 0, end |-> 0]

Idle == [pc |-> "idle", game |-> NoGame, quantity |-> 0, newAvailableStock |-> 0]

NoRet ==
    [op |-> "none", actor |-> "none", game |-> NoGame, booking |-> 0, txn |-> 0,
     arg |-> "none", before |-> 0, called |-> "none", err |-> "nil", code |-> 0]

\* A call on the stock ledger: before is the available_stock the call read.
Ret(op, actor, game, before, err) ==
    [NoRet EXCEPT !.op = op, !.actor = actor, !.game = game, !.before = before,
                  !.err = err]

(***************************************************************************)
(* gameRepository (internal/repository/game_repo.go)                       *)
(***************************************************************************)

\* UPDATE games SET available_stock = available_stock - 1
\*  WHERE id = ? AND available_stock > 0
RepoReserveRow(game) ==
    IF game.available_stock > 0
    THEN [game EXCEPT !.available_stock = @ - 1]
    ELSE game

\* The method returns the statement's .Error: nil also when no row matched.
RepoReserveErr(game) == "nil"

ReleaseNoClamp(game) == [game EXCEPT !.available_stock = @ + 1]

\* UPDATE games SET available_stock = LEAST(available_stock + 1, stock) WHERE id = ?
RepoReleaseRow(game) ==
    [game EXCEPT !.available_stock = Min(@ + 1, game.stock)]

(***************************************************************************)
(* Stock ledger calls made directly: gameRepository.ReserveStock and       *)
(* ReleaseStock (one SQL statement each) in the simple build, and          *)
(* gameService.ReserveStock / ReleaseStock (GetByID, then                  *)
(* UpdateAvailableStock: two statements, other requests may run between    *)
(* them) in the partner build.                                             *)
(***************************************************************************)
AvailableOf(g) == IF g \in DOMAIN games THEN games[g].available_stock ELSE 0

ReserveStock(g) ==
    /\ variant = "simple"
    /\ reserveOk < MaxCalls
    /\ games' = [x \in DOMAIN games |->
                    IF x = g THEN RepoReserveRow(games[x]) ELSE games[x]]
    /\ reserveOk' = IF RepoReserveErr(games[g]) = "nil" THEN reserveOk + 1 ELSE reserveOk
    /\ reserveDec' = reserveDec + (games[g].available_stock - games'[g].available_stock)
    /\ ret' = Ret("ReserveStock", "repo", g, games[g].available_stock, RepoReserveErr(games[g]))
    /\ UNCHANGED <<variant, bookings, payments, users, categories, disputes, svc, req>>

ReleaseStock(g) ==
    /\ variant = "simple"
    /\ games' = [x \in DOMAIN games |->
                    IF x = g THEN RepoReleaseRow(games[x]) ELSE games[x]]
    /\ ret' = Ret("ReleaseStock", "repo", g, games[g].available_stock, "nil")
    /\ UNCHANGED <<variant, bookings, payments, users, categories, disputes, svc, req, reserveOk, reserveDec>>

\* gameService.ReserveStock, up to its write: GetByID and the stock test.
SvcReserveStockRead(p, g, quantity) ==
    /\ variant = "partner"
    /\ svc[p].pc = "idle"
    /\ reserveOk < MaxCalls
    /\ IF games[g].available_stock < quantity
       THEN /\ ret' = Ret("SvcReserveStock", p, g, games[g].available_stock,
                          "ErrGameStockInsufficient")
            /\ UNCHANGED svc
       ELSE /\ svc' = [svc EXCEPT ![p] =
                          [pc |-> "reserve_write", game |-> g, quantity |-> quantity,
                           newAvailableStock |-> games[g].available_stock - quantity]]
            /\ UNCHANGED ret
    /\ UNCHANGED <<variant, games, bookings, payments, users, categories, disputes, req, reserveOk, reserveDec>>

\* gameRepository.UpdateAvailableStock(gameID, newAvailableStock), then return nil.
SvcReserveStockWrite(p) ==
    /\ svc[p].pc = "reserve_write"
    /\ LET g == svc[p].game IN
        /\ games' = [games EXCEPT ![g].available_stock = svc[p].newAvailableStock]
        /\ reserveOk' = reserveOk + svc[p].quantity
        /\ reserveDec' = reserveDec + (games[g].available_stock - svc[p].newAvailableStock)
        /\ ret' = Ret("SvcReserveStock", p, g,
                       svc[p].newAvailableStock + svc[p].quantity, "nil")
    /\ svc' = [svc EXCEPT ![p] = Idle]
    /\ UNCHANGED <<variant, bookings, payments, users, categories, disputes, req>>

\* gameService.ReleaseStock, up to its write: GetByID and the clamp to stock.
SvcReleaseStockRead(p, g, quantity) ==
    /\ variant = "partner"
    /\ svc[p].pc = "idle"
    /\ svc' = [svc EXCEPT ![p] =
                  [pc |-> "release_write", game |-> g, quantity |-> quantity,
                   newAvailableStock |->
                       Min(games[g].available_stock + quantity, games[g].stock)]]
    /\ UNCHANGED <<variant, games, bookings, payments, users, categories, disputes, req, reserveOk, reserveDec, ret>>

SvcReleaseStockWrite(p) ==
    /\ svc[p].pc = "release_write"
    /\ LET g == svc[p].game IN
        /\ games' = [games EXCEPT ![g].available_stock = svc[p].newAvailableStock]
        /\ ret' = Ret("SvcReleaseStock", p, g, games[g].available_stock, "nil")
    /\ svc' = [svc EXCEPT ![p] = Idle]
    /\ UNCHANGED <<variant, bookings, payments, users, categories, disputes, req, reserveOk, reserveDec>>

\* Accounts: the seeded super admin, an admin and a customer, all active.
AccountIDs == {"root", "adm", "u1"}

\* utils.HashPassword: a salted hash, told apart only by the password hashed
HashPassword(password) == <<"bcrypt", password>>

\* utils.CheckPassword(hash, password)
CheckPassword(hash, password) == hash = HashPassword(password)

UserRow(role, active) ==
    [role |-> role, is_active |-> active, password |-> HashPassword("seeded")]

InitUsers ==
    [id \in AccountIDs |->
        UserRow(CASE id = "root" -> "super_admin" [] id = "adm" -> "admin"
                  [] OTHER -> "customer", TRUE)]

CategoryNames == {"Action", "Puzzle"}

CategoryRow(name, active, hasGames) ==
    [name |-> name, is_active |-> active, deleted |-> FALSE, has_games |-> hasGames]

\* The seed: a category the listed games belong to.
InitCategories == <<CategoryRow("Action", TRUE, TRUE)>>

\* Price per day and deposit of a listing as in the seed data.
SeedPrice == 10000
SeedDeposit == 35000

PricedGameRow(partner, n, active, approval, price, deposit) ==
    [partner_id |-> partner, stock |-> n, available_stock |-> n,
     is_active |-> active, approval_status |-> approval,
     rental_price_per_day |-> price, security_deposit |-> deposit]

GameRow(partner, n, active, approval) ==
    PricedGameRow(partner, n, active, approval, SeedPrice, SeedDeposit)

InitStock ==
    /\ variant \in Variants
    /\ games \in [GameIDs -> {GameRow("o1", n, TRUE, "approved") : n \in 1..MaxStock}]
    /\ bookings = <<>>
    /\ payments = <<>>
    /\ users = InitUsers
    /\ categories = InitCategories
    /\ disputes = <<>>
    /\ svc = [p \in Procs |-> Idle]
    /\ req = [p \in Procs |-> NoRequest]
    /\ reserveOk = 0
    /\ reserveDec = 0
    /\ ret = NoRet

NextStock ==
    \/ \E g \in GameIDs : ReserveStock(g)
    \/ \E g \in GameIDs : ReleaseStock(g)
    \/ \E p \in Procs, g \in GameIDs, q \in Quantities : SvcReserveStockRead(p, g, q)
    \/ \E p \in Procs : SvcReserveStockWrite(p)
    \/ \E p \in Procs, g \in GameIDs, q \in Quantities : SvcReleaseStockRead(p, g, q)
    \/ \E p \in Procs : SvcReleaseStockWrite(p)

SpecStock == InitStock /\ [][NextStock]_vars

(***************************************************************************)
(* Bookings.  Users, roles and the inputs of the requests.                 *)
(***************************************************************************)
MaxBookings == 2
\* Instants are whole hours; Today is time.Now().Truncate(24h).
DayHours == 24
Today == 24

Renters == {"u1"}
Users == {"u1", "u2"}
Owners == {"o1", "o2"}
Roles == {"customer", "partner", "admin", "super_admin"}
BookingStatuses ==
    {"pending_payment", "confirmed", "active", "completed", "cancelled", "disputed"}
AnyGameIDs == GameIDs \cup {"g0"}
StartDates == {Today - DayHours, Today}
EndDates == {Today - DayHours, Today + DayHours}
BookingIDs == 1..MaxBookings

\* int(x) of Go for the quotient n/d: the fraction is dropped, towards zero
Truncate(n, d) == IF n >= 0 THEN n \div d ELSE -((-n) \div d)

RentalDaysExclusive(start, end) == Truncate(end - start, DayHours)

\* rentalDays := int(EndDate.Sub(StartDate).Hours()/24) + 1
RentalDays(start, end) == Truncate(end - start, DayHours) + 1

\* Only CreateBooking copies the listing's partner into the booking.
NewBooking(u, g, start, end) ==
    [user_id |-> u, game_id |-> g,
     partner_id |-> IF variant = "partner" THEN games[g].partner_id ELSE "none",
     start_date |-> start, end_date |-> end, rental_days |-> RentalDays(start, end),
     daily_price |-> games[g].rental_price_per_day,
     total_rental_price |-> RentalDays(start, end) * games[g].rental_price_per_day,
     security_deposit |-> games[g].security_deposit,
     total_amount |-> RentalDays(start, end) * games[g].rental_price_per_day
                        + games[g].security_deposit,
     status |-> "pending_payment"]

BookingExists(b) == b \in 1..Len(bookings)

\* gameRepository.CheckAvailability: a plain read of available_stock
CheckAvailability(game) == game.available_stock > 0

\* start.After(end) || start.Before(time.Now().Truncate(24h))
InvalidDates(start, end) == start > end \/ start < Today

\* bookingService.Create up to and including CheckAvailability (simple build)
CreateErr(g, start, end) ==
    IF g \notin DOMAIN games THEN "ErrGameNotFound"
    ELSE IF ~games[g].is_active THEN "ErrGameNotAvailable"
    ELSE IF InvalidDates(start, end) THEN "ErrBookingInvalidDate"
    ELSE IF ~CheckAvailability(games[g]) THEN "ErrGameStockInsufficient"
    ELSE "nil"

CreateBookingErrNoActiveTest(g, start, end, hasConflict) ==
    IF g \notin DOMAIN games THEN "ErrGameNotFound"
    ELSE IF InvalidDates(start, end) THEN "ErrBookingInvalidDate"
    ELSE IF hasConflict THEN "ErrBookingDateConflict"
    ELSE IF ~CheckAvailability(games[g]) THEN "ErrGameStockInsufficient"
    ELSE "nil"

\* bookingService.CreateBooking up to and including CheckAvailability (partner
\* build); hasConflict is the answer of bookingRepo.CheckDateConflicts
CreateBookingErr(g, start, end, hasConflict) ==
    IF g \notin DOMAIN games THEN "ErrGameNotFound"
    ELSE IF ~games[g].is_active \/ games[g].approval_status # "approved"
         THEN "ErrBookingGameNotActive"
    ELSE IF InvalidDates(start, end) THEN "ErrBookingInvalidDate"
    ELSE IF hasConflict THEN "ErrBookingDateConflict"
    ELSE IF ~CheckAvailability(games[g]) THEN "ErrGameStockInsufficient"
    ELSE "nil"

\* gameRepo.ReserveStock(gameID, 1) and gameRepo.ReleaseStock(gameID, 1) of the
\* partner build: the compare-and-decrement and the clamped increment of the
\* inventory ledger.
PartnerReserveErr(game) ==
    IF game.available_stock > 0 THEN "nil" ELSE "ErrGameStockInsufficient"

PartnerReserveRow(game) ==
    IF game.available_stock > 0
    THEN [game EXCEPT !.available_stock = @ - 1]
    ELSE game

PartnerReleaseRow(game) ==
    [game EXCEPT !.available_stock = Min(@ + 1, game.stock)]

ReleaseRow(game) ==
    IF variant = "simple" THEN RepoReleaseRow(game) ELSE PartnerReleaseRow(game)

\* A call on a booking: actor is the caller where the call tests ownership.
RetOf(op, actor, b, err) ==
    [NoRet EXCEPT !.op = op, !.actor = actor, !.booking = b, !.err = err]

StockFrame == UNCHANGED <<svc, reserveOk, reserveDec, users, categories, disputes>>

(***************************************************************************)
(* Customer operations, each request run to completion.                    *)
(***************************************************************************)
Create(u, g, start, end) ==
    /\ variant = "simple"
    /\ Len(bookings) < MaxBookings
    /\ LET err == CreateErr(g, start, end) IN
        IF err # "nil"
        THEN /\ ret' = RetOf("Create", "none", 0, err)
             /\ UNCHANGED <<games, bookings>>
        ELSE /\ games' = [games EXCEPT ![g] = RepoReserveRow(@)]
             /\ bookings' = Append(bookings, NewBooking(u, g, start, end))
             /\ ret' = RetOf("Create", "none", Len(bookings) + 1, RepoReserveErr(games[g]))
    /\ UNCHANGED <<variant, payments, req>>
    /\ StockFrame

CreateBooking(u, g, start, end, hasConflict) ==
    /\ variant = "partner"
    /\ Len(bookings) < MaxBookings
    /\ LET err == CreateBookingErr(g, start, end, hasConflict) IN
        IF err # "nil"
        THEN /\ ret' = RetOf("CreateBooking", "none", 0, err)
             /\ UNCHANGED <<games, bookings>>
        ELSE /\ games' = [games EXCEPT ![g] = PartnerReserveRow(@)]
             /\ bookings' = Append(bookings, NewBooking(u, g, start, end))
             /\ ret' = RetOf("CreateBooking", "none", Len(bookings) + 1, "nil")
    /\ UNCHANGED <<variant, payments, req>>
    /\ StockFrame

CancelErrNoStatusTest(u, b) ==
    IF ~BookingExists(b) THEN "ErrBookingNotFound"
    ELSE IF bookings[b].user_id # u THEN "ErrBookingNotOwned"
    ELSE "nil"

\* The guards of Cancel and of CancelBooking, which are the same.
CancelErr(u, b) ==
    IF ~BookingExists(b) THEN "ErrBookingNotFound"
    ELSE IF bookings[b].user_id # u THEN "ErrBookingNotOwned"
    ELSE IF bookings[b].status \notin {"pending_payment", "confirmed"}
         THEN "ErrBookingCannotCancel"
    ELSE "nil"

\* ReleaseStock(booking.GameID), then bookingRepo.UpdateStatus(id, cancelled)
CancelEffect(op, u, b) ==
    LET err == CancelErr(u, b) IN
    IF err # "nil"
    THEN /\ ret' = RetOf(op, u, b, err)
         /\ UNCHANGED <<games, bookings>>
    ELSE /\ games' = [games EXCEPT ![bookings[b].game_id] = ReleaseRow(@)]
         /\ bookings' = [bookings EXCEPT ![b].status = "cancelled"]
         /\ ret' = RetOf(op, u, b, "nil")

Cancel(u, b) ==
    /\ variant = "simple"
    /\ CancelEffect("Cancel", u, b)
    /\ UNCHANGED <<variant, payments, req>>
    /\ StockFrame

CancelBooking(u, b) ==
    /\ variant = "partner"
    /\ CancelEffect("CancelBooking", u, b)
    /\ UNCHANGED <<variant, payments, req>>
    /\ StockFrame

(***************************************************************************)
(* Concurrent booking requests: each request is two steps, the reads up to *)
(* CheckAvailability, then ReserveStock with the insert of the row.        *)
(***************************************************************************)
InFlight == Cardinality({p \in Procs : req[p].pc # "idle"})

StartRequest(p, u, g, start, end) ==
    req' = [req EXCEPT ![p] = [pc |-> "reserve", user |-> u, game |-> g, booking |-> 0,
                               start |-> start, end |-> end]]

CreateCheck(p, u, g, start, end) ==
    /\ variant = "simple"
    /\ req[p].pc = "idle"
    /\ Len(bookings) + InFlight < MaxBookings
    /\ LET err == CreateErr(g, start, end) IN
        IF err # "nil"
        THEN /\ ret' = RetOf("Create", "none", 0, err)
             /\ UNCHANGED req
        ELSE /\ StartRequest(p, u, g, start, end)
             /\ UNCHANGED ret
    /\ UNCHANGED <<variant, games, bookings, payments>>
    /\ StockFrame

CreateCommit(p) ==
    /\ variant = "simple"
    /\ req[p].pc = "reserve"
    /\ LET r == req[p] IN
        /\ games' = [games EXCEPT ![r.game] = RepoReserveRow(@)]
        /\ bookings' = Append(bookings, NewBooking(r.user, r.game, r.start, r.end))
        /\ ret' = [RetOf("Create", "none", Len(bookings) + 1,
                         RepoReserveErr(games[r.game]))
                     EXCEPT !.before = games[r.game].available_stock]
    /\ req' = [req EXCEPT ![p] = NoRequest]
    /\ UNCHANGED <<variant, payments>>
    /\ StockFrame

CreateBookingCheck(p, u, g, start, end, hasConflict) ==
    /\ variant = "partner"
    /\ req[p].pc = "idle"
    /\ Len(bookings) + InFlight < MaxBookings
    /\ LET err == CreateBookingErr(g, start, end, hasConflict) IN
        IF err # "nil"
        THEN /\ ret' = RetOf("CreateBooking", "none", 0, err)
             /\ UNCHANGED req
        ELSE /\ StartRequest(p, u, g, start, end)
             /\ UNCHANGED ret
    /\ UNCHANGED <<variant, games, bookings, payments>>
    /\ StockFrame

CreateBookingCommit(p) ==
    /\ variant = "partner"
    /\ req[p].pc = "reserve"
    /\ LET r == req[p]
           err == PartnerReserveErr(games[r.game])
       IN
        IF err # "nil"
        THEN /\ ret' = [RetOf("CreateBooking", "none", 0, err)
                          EXCEPT !.before = games[r.game].available_stock]
             /\ UNCHANGED <<games, bookings>>
        ELSE /\ games' = [games EXCEPT ![r.game] = PartnerReserveRow(@)]
             /\ bookings' = Append(bookings, NewBooking(r.user, r.game, r.start, r.end))
             /\ ret' = [RetOf("CreateBooking", "none", Len(bookings) + 1, "nil")
                          EXCEPT !.before = games[r.game].available_stock]
    /\ req' = [req EXCEPT ![p] = NoRequest]
    /\ UNCHANGED <<variant, payments>>
    /\ StockFrame

\* CreateGame stores is_active = false and pending_approval; an admin approves
\* and activates a listing; g2 is a listing still waiting for approval.
InitGames ==
    games \in { [g \in GameIDs |->
                   IF g = "g1" THEN GameRow("o1", n, TRUE, "approved")
                   ELSE GameRow("o2", 1, FALSE, "pending_approval")]
                : n \in 1..MaxStock }

InitCreate ==
    /\ variant \in Variants
    /\ InitGames
    /\ bookings = <<>>
    /\ payments = <<>>
    /\ users = InitUsers
    /\ categories = InitCategories
    /\ disputes = <<>>
    /\ svc = [p \in Procs |-> Idle]
    /\ req = [p \in Procs |-> NoRequest]
    /\ reserveOk = 0
    /\ reserveDec = 0
    /\ ret = NoRet

NextCreate ==
    \/ \E p \in Procs, u \in Renters, g \in AnyGameIDs, start \in StartDates,
          end \in EndDates : CreateCheck(p, u, g, start, end)
    \/ \E p \in Procs : CreateCommit(p)
    \/ \E p \in Procs, u \in Renters, g \in AnyGameIDs, start \in StartDates,
          end \in EndDates, hasConflict \in BOOLEAN :
            CreateBookingCheck(p, u, g, start, end, hasConflict)
    \/ \E p \in Procs : CreateBookingCommit(p)
    \/ \E u \in Users, b \in BookingIDs : Cancel(u, b)
    \/ \E u \in Users, b \in BookingIDs : CancelBooking(u, b)

SpecCreate == InitCreate /\ [][NextCreate]_vars

(***************************************************************************)
(* Staff operations on a booking.                                          *)
(***************************************************************************)
canManageBookings(role) == role \in {"admin", "super_admin"}

RepoUpdateStatusRecompute(b, status) ==
    IF BookingExists(b)
    THEN LET game == games[bookings[b].game_id] IN
         [bookings EXCEPT
            ![b].status = status,
            ![b].daily_price = game.rental_price_per_day,
            ![b].total_rental_price = bookings[b].rental_days * game.rental_price_per_day,
            ![b].security_deposit = game.security_deposit,
            ![b].total_amount = bookings[b].rental_days * game.rental_price_per_day
                                  + game.security_deposit]
    ELSE bookings

\* bookingRepo.UpdateStatus: UPDATE bookings SET status = ? WHERE id = ?
RepoUpdateStatus(b, status) ==
    IF BookingExists(b) THEN [bookings EXCEPT ![b].status = status] ELSE bookings

UpdateStatus(role, b, status) ==
    /\ variant = "simple"
    /\ LET err == IF ~canManageBookings(role) THEN "ErrInsufficientPermission"
                  ELSE IF ~BookingExists(b) THEN "ErrBookingNotFound"
                  ELSE "nil"
       IN
        /\ bookings' = IF err = "nil" THEN RepoUpdateStatus(b, status) ELSE bookings
        /\ ret' = RetOf("UpdateStatus", "none", b, err)
    /\ UNCHANGED <<variant, games, payments, req>>
    /\ StockFrame

ForceUpdateBookingStatus(role, b, status) ==
    /\ variant = "partner"
    /\ LET err == IF ~canManageBookings(role) THEN "ErrInsufficientPermission" ELSE "nil" IN
        /\ bookings' = IF err = "nil" THEN RepoUpdateStatus(b, status) ELSE bookings
        /\ ret' = RetOf("ForceUpdateBookingStatus", "none", b, err)
    /\ UNCHANGED <<variant, games, payments, req>>
    /\ StockFrame

PartnerConfirmErrNoOwnerTest(partner, b, from) ==
    IF ~BookingExists(b) THEN "ErrBookingNotFound"
    ELSE IF bookings[b].status # from THEN "ErrBookingCannotConfirm"
    ELSE "nil"

\* The guards of ConfirmHandover (from = confirmed) and ConfirmReturn (from = active)
PartnerConfirmErr(partner, b, from) ==
    IF ~BookingExists(b) THEN "ErrBookingNotFound"
    ELSE IF bookings[b].partner_id # partner THEN "ErrBookingNotOwned"
    ELSE IF bookings[b].status # from THEN "ErrBookingCannotConfirm"
    ELSE "nil"

ConfirmHandover(partner, b) ==
    /\ variant = "partner"
    /\ LET err == PartnerConfirmErr(partner, b, "confirmed") IN
        /\ bookings' = IF err = "nil" THEN [bookings EXCEPT ![b].status = "active"]
                       ELSE bookings
        /\ ret' = RetOf("ConfirmHandover", partner, b, err)
    /\ UNCHANGED <<variant, games, payments, req>>
    /\ StockFrame

ConfirmReturnNoRelease(partner, b) ==
    /\ variant = "partner"
    /\ LET err == PartnerConfirmErr(partner, b, "active") IN
        /\ bookings' = IF err = "nil" THEN [bookings EXCEPT ![b].status = "completed"]
                       ELSE bookings
        /\ ret' = RetOf("ConfirmReturn", partner, b, err)
    /\ UNCHANGED <<variant, games, payments, req>>
    /\ StockFrame

ConfirmReturn(partner, b) ==
    /\ variant = "partner"
    /\ LET err == PartnerConfirmErr(partner, b, "active") IN
        IF err # "nil"
        THEN /\ ret' = RetOf("ConfirmReturn", partner, b, err)
             /\ UNCHANGED <<games, bookings>>
        ELSE /\ games' = [games EXCEPT ![bookings[b].game_id] = PartnerReleaseRow(@)]
             /\ bookings' = [bookings EXCEPT ![b].status = "completed"]
             /\ ret' = RetOf("ConfirmReturn", partner, b, "nil")
    /\ UNCHANGED <<variant, payments, req>>
    /\ StockFrame

(***************************************************************************)
(* Booking transitions driven by the payment service.                      *)
(***************************************************************************)
ConfirmPaymentErrNoStatusTest(b) ==
    IF ~BookingExists(b) THEN "ErrBookingNotFound" ELSE "nil"

ConfirmPaymentErr(b) ==
    IF ~BookingExists(b) THEN "ErrBookingNotFound"
    ELSE IF bookings[b].status # "pending_payment" THEN "ErrBookingNotPending"
    ELSE "nil"

\* bookings after ConfirmPayment(b)
ConfirmPaymentBookings(b) ==
    IF ConfirmPaymentErr(b) = "nil"
    THEN [bookings EXCEPT ![b].status = "confirmed"]
    ELSE bookings

FailPaymentErr(b) == IF ~BookingExists(b) THEN "ErrBookingNotFound" ELSE "nil"

\* games and bookings after FailPayment(b): release, then status cancelled
FailPaymentGames(b) ==
    IF FailPaymentErr(b) = "nil"
    THEN [games EXCEPT ![bookings[b].game_id] = ReleaseRow(@)]
    ELSE games

FailPaymentBookings(b) ==
    IF FailPaymentErr(b) = "nil"
    THEN [bookings EXCEPT ![b].status = "cancelled"]
    ELSE bookings

(***************************************************************************)
(* Payments.  The gateway's transaction id for order "booking-<id>" is     *)
(* modelled by the booking id.  A row carries the columns the booking flow  *)
(* reads: booking_id, status and provider_payment_id (0 is NULL).          *)
(***************************************************************************)
Providers == {"midtrans", "stripe"}
TxnIDs == BookingIDs
WebhookStatuses == {"paid", "failed", "settlement", "pending", "deny"}

NewPayment(b) ==
    [booking_id |-> b, status |-> "pending", provider_payment_id |-> 0]

\* paymentRepo.GetByBookingID / GetByProviderPaymentID: the first matching row, 0 if none
GetByBookingID(b) ==
    LET found == {p \in DOMAIN payments : payments[p].booking_id = b} IN
    IF found = {} THEN 0 ELSE CHOOSE p \in found : \A q \in found : p <= q

GetByProviderPaymentID(txn) ==
    LET found == {p \in DOMAIN payments : payments[p].provider_payment_id = txn} IN
    IF found = {} THEN 0 ELSE CHOOSE p \in found : \A q \in found : p <= q

\* The checks of CreatePayment before the row is inserted (partner build);
\* "existing" stands for the early return of the existing payment with a nil error.
CreatePaymentErr(u, b) ==
    IF ~BookingExists(b) THEN "ErrBookingNotFound"
    ELSE IF bookings[b].user_id # u THEN "ErrBookingNotOwned"
    ELSE IF bookings[b].status # "pending_payment" THEN "ErrBookingNotPending"
    ELSE IF GetByBookingID(b) # 0 THEN "existing"
    ELSE "nil"

\* The same checks in the simple build
CreatePaymentMapErr(u, b) ==
    IF ~BookingExists(b) THEN "ErrPaymentBookingNotFound"
    ELSE IF bookings[b].user_id # u THEN "unauthorized"
    ELSE IF bookings[b].status # "pending_payment" THEN "ErrBookingNotPending"
    ELSE IF GetByBookingID(b) # 0 THEN "ErrPaymentAlreadyExists"
    ELSE "nil"

PaymentRet(op, u, b, txn, err) ==
    [RetOf(op, "none", b, err) EXCEPT !.txn = txn]

\* paymentService.CreatePayment of payment_service.go; gatewayOk is the outcome
\* of paymentGateway.CreateCharge
CreatePayment(u, b, gatewayOk) ==
    /\ variant = "partner"
    /\ LET err == CreatePaymentErr(u, b) IN
        IF err = "existing"
        THEN /\ ret' = PaymentRet("CreatePayment", u, b, 0, "nil")
             /\ UNCHANGED payments
        ELSE IF err # "nil"
        THEN /\ ret' = PaymentRet("CreatePayment", u, b, 0, err)
             /\ UNCHANGED payments
        ELSE IF ~gatewayOk
        THEN /\ payments' = Append(payments, NewPayment(b))
             /\ ret' = PaymentRet("CreatePayment", u, b, 0, "ErrPaymentGateway")
        ELSE /\ payments' = Append(payments, [NewPayment(b) EXCEPT !.provider_payment_id = b])
             /\ ret' = PaymentRet("CreatePayment", u, b, b, "nil")
    /\ UNCHANGED <<variant, games, bookings, req>>
    /\ StockFrame

\* paymentService.CreatePayment of category_service.go
CreatePaymentMap(u, b, provider, gatewayOk) ==
    /\ variant = "simple"
    /\ LET err == CreatePaymentMapErr(u, b) IN
        IF err # "nil"
        THEN /\ ret' = PaymentRet("CreatePayment", u, b, 0, err)
             /\ UNCHANGED payments
        ELSE IF provider # "midtrans"
        THEN /\ payments' = Append(payments, NewPayment(b))
             /\ ret' = PaymentRet("CreatePayment", u, b, 0, "ErrProviderNotImplemented")
        ELSE IF ~gatewayOk
        THEN /\ payments' = Append(payments, NewPayment(b))
             /\ ret' = PaymentRet("CreatePayment", u, b, 0, "ErrPaymentGateway")
        ELSE /\ payments' = Append(payments, [NewPayment(b) EXCEPT !.provider_payment_id = b])
             /\ ret' = PaymentRet("CreatePayment", u, b, b, "nil")
    /\ UNCHANGED <<variant, games, bookings, req>>
    /\ StockFrame

(***************************************************************************)
(* Gateway webhooks.                                                       *)
(***************************************************************************)
PaidWords == {"paid", "success", "completed"}
FailedWords == {"failed", "error", "cancelled"}

\* The lookup table of the map-based webhook
MapStatus(transactionStatus) ==
    IF transactionStatus \in {"capture", "settlement"} THEN "paid"
    ELSE IF transactionStatus = "pending" THEN "pending"
    ELSE IF transactionStatus \in {"deny", "expire", "cancel"} THEN "failed"
    ELSE "unknown"

MarkAsPaid(payment, txn) ==
    [payment EXCEPT !.status = "paid", !.provider_payment_id = txn]

MarkAsFailed(payment) ==
    [payment EXCEPT !.status = "failed"]

WebhookRet(op, txn, status, b, called, err) ==
    [NoRet EXCEPT !.op = op, !.actor = "gateway", !.txn = txn, !.arg = status,
                  !.booking = b, !.called = called, !.err = err]

\* paymentService.ProcessWebhook(providerPaymentID, status, ...) of the partner build
ProcessWebhook(txn, status) ==
    /\ variant = "partner"
    /\ LET p == GetByProviderPaymentID(txn)
           b == payments[p].booking_id
           op == "ProcessWebhook"
       IN
        IF p = 0
        THEN /\ ret' = WebhookRet(op, txn, status, 0, "none", "ErrPaymentNotFound")
             /\ UNCHANGED <<games, bookings, payments>>
        ELSE IF status \in PaidWords
        THEN IF payments[p].status = "paid"
             THEN /\ ret' = WebhookRet(op, txn, status, b, "none", "nil")
                  /\ UNCHANGED <<games, bookings, payments>>
             ELSE /\ payments' = [payments EXCEPT ![p] = MarkAsPaid(@, txn)]
                  /\ bookings' = ConfirmPaymentBookings(b)
                  /\ ret' = WebhookRet(op, txn, status, b, "ConfirmPayment",
                                       ConfirmPaymentErr(b))
                  /\ UNCHANGED games
        ELSE IF status \in FailedWords
        THEN IF payments[p].status = "failed"
             THEN /\ ret' = WebhookRet(op, txn, status, b, "none", "nil")
                  /\ UNCHANGED <<games, bookings, payments>>
             ELSE /\ payments' = [payments EXCEPT ![p] = MarkAsFailed(@)]
                  /\ games' = FailPaymentGames(b)
                  /\ bookings' = FailPaymentBookings(b)
                  /\ ret' = WebhookRet(op, txn, status, b, "FailPayment", FailPaymentErr(b))
        ELSE /\ ret' = WebhookRet(op, txn, status, b, "none", "ErrUnknownStatus")
             /\ UNCHANGED <<games, bookings, payments>>
    /\ UNCHANGED <<variant, req>>
    /\ StockFrame

\* paymentService.ProcessWebhook(data) of the simple build, data holding
\* order_id = txn and transaction_status = status
ProcessWebhookMap(txn, status) ==
    /\ variant = "simple"
    /\ LET p == GetByProviderPaymentID(txn)
           b == payments[p].booking_id
           newStatus == MapStatus(status)
           op == "ProcessWebhook"
       IN
        IF p = 0
        THEN /\ ret' = WebhookRet(op, txn, status, 0, "none", "ErrPaymentNotFound")
             /\ UNCHANGED <<games, bookings, payments>>
        ELSE IF newStatus = "unknown"
        THEN /\ ret' = WebhookRet(op, txn, status, b, "none", "ErrUnknownStatus")
             /\ UNCHANGED <<games, bookings, payments>>
        ELSE IF newStatus = "paid"
        THEN IF ConfirmPaymentErr(b) # "nil"
             THEN /\ ret' = WebhookRet(op, txn, status, b, "ConfirmPayment",
                                       ConfirmPaymentErr(b))
                  /\ UNCHANGED <<games, bookings, payments>>
             ELSE /\ bookings' = ConfirmPaymentBookings(b)
                  /\ payments' = [payments EXCEPT ![p].status = "paid"]
                  /\ ret' = WebhookRet(op, txn, status, b, "ConfirmPayment", "nil")
                  /\ UNCHANGED games
        ELSE IF newStatus = "failed"
        THEN IF FailPaymentErr(b) # "nil"
             THEN /\ ret' = WebhookRet(op, txn, status, b, "FailPayment", FailPaymentErr(b))
                  /\ UNCHANGED <<games, bookings, payments>>
             ELSE /\ games' = FailPaymentGames(b)
                  /\ bookings' = FailPaymentBookings(b)
                  /\ payments' = [payments EXCEPT ![p].status = "failed"]
                  /\ ret' = WebhookRet(op, txn, status, b, "FailPayment", "nil")
        ELSE /\ payments' = [payments EXCEPT ![p].status = newStatus]
             /\ ret' = WebhookRet(op, txn, status, b, "none", "nil")
             /\ UNCHANGED <<games, bookings>>
    /\ UNCHANGED <<variant, req>>
    /\ StockFrame

(***************************************************************************)
(* The service: every request runs to completion.                          *)
(***************************************************************************)
\* g1 is an approved, active listing with all MaxStock units available.
Init ==
    /\ variant \in Variants
    /\ games = [g \in GameIDs |->
                  IF g = "g1" THEN GameRow("o1", MaxStock, TRUE, "approved")
                  ELSE GameRow("o2", 1, FALSE, "pending_approval")]
    /\ bookings = <<>>
    /\ payments = <<>>
    /\ users = InitUsers
    /\ categories = InitCategories
    /\ disputes = <<>>
    /\ svc = [p \in Procs |-> Idle]
    /\ req = [p \in Procs |-> NoRequest]
    /\ reserveOk = 0
    /\ reserveDec = 0
    /\ ret = NoRet

Next ==
    \/ \E u \in Renters, g \in AnyGameIDs, start \in StartDates, end \in EndDates :
          Create(u, g, start, end)
    \/ \E u \in Renters, g \in AnyGameIDs, start \in StartDates, end \in EndDates,
          hasConflict \in BOOLEAN : CreateBooking(u, g, start, end, hasConflict)
    \/ \E u \in Users, b \in BookingIDs : Cancel(u, b)
    \/ \E u \in Users, b \in BookingIDs : CancelBooking(u, b)
    \/ \E role \in Roles, b \in BookingIDs, status \in BookingStatuses :
          UpdateStatus(role, b, status)
    \/ \E role \in Roles, b \in BookingIDs, status \in BookingStatuses :
          ForceUpdateBookingStatus(role, b, status)
    \/ \E partner \in Owners, b \in BookingIDs : ConfirmHandover(partner, b)
    \/ \E partner \in Owners, b \in BookingIDs : ConfirmReturn(partner, b)
    \/ \E u \in Users, b \in BookingIDs, gatewayOk \in BOOLEAN :
          CreatePayment(u, b, gatewayOk)
    \/ \E u \in Users, b \in BookingIDs, provider \in Providers, gatewayOk \in BOOLEAN :
          CreatePaymentMap(u, b, provider, gatewayOk)
    \/ \E txn \in TxnIDs, status \in WebhookStatuses : ProcessWebhook(txn, status)
    \/ \E txn \in TxnIDs, status \in WebhookStatuses : ProcessWebhookMap(txn, status)

Spec == Init /\ [][Next]_vars

(***************************************************************************)
(* Concurrent cancel requests: Cancel and CancelBooking are three steps,   *)
(* the read of the booking with its tests, ReleaseStock, and UpdateStatus. *)
(***************************************************************************)
CancelOp == IF variant = "simple" THEN "Cancel" ELSE "CancelBooking"

CancelBegin(p, u, b) ==
    /\ req[p].pc = "idle"
    /\ LET err == CancelErr(u, b) IN
        IF err # "nil"
        THEN /\ ret' = RetOf(CancelOp, u, b, err)
             /\ UNCHANGED req
        ELSE /\ req' = [req EXCEPT ![p] = [NoRequest EXCEPT !.pc = "release", !.user = u,
                                              !.game = bookings[b].game_id,
                                              !.booking = b]]
             /\ UNCHANGED ret
    /\ UNCHANGED <<variant, games, bookings, payments>>
    /\ StockFrame

CancelRelease(p) ==
    /\ req[p].pc = "release"
    /\ games' = [games EXCEPT ![req[p].game] = ReleaseRow(@)]
    /\ req' = [req EXCEPT ![p].pc = "update"]
    /\ UNCHANGED <<variant, bookings, payments, ret>>
    /\ StockFrame

CancelFinish(p) ==
    /\ req[p].pc = "update"
    /\ bookings' = RepoUpdateStatus(req[p].booking, "cancelled")
    /\ ret' = RetOf(CancelOp, req[p].user, req[p].booking, "nil")
    /\ req' = [req EXCEPT ![p] = NoRequest]
    /\ UNCHANGED <<variant, games, payments>>
    /\ StockFrame

NextCancel ==
    \/ \E u \in Renters, g \in AnyGameIDs, start \in StartDates, end \in EndDates :
          Create(u, g, start, end)
    \/ \E u \in Renters, g \in AnyGameIDs, start \in StartDates, end \in EndDates,
          hasConflict \in BOOLEAN : CreateBooking(u, g, start, end, hasConflict)
    \/ \E p \in Procs, u \in Users, b \in BookingIDs : CancelBegin(p, u, b)
    \/ \E p \in Procs : CancelRelease(p)
    \/ \E p \in Procs : CancelFinish(p)

SpecCancel == Init /\ [][NextCancel]_vars

(***************************************************************************)
(* Payment failure of a later booking.  Booking 1 of the item is left      *)
(* alone once it is created, so that every change of the item's stock      *)
(* after it comes from the second booking.                                 *)
(***************************************************************************)
SecondBooking == 2

NextFail ==
    \/ \E u \in Renters, g \in AnyGameIDs, start \in StartDates, end \in EndDates :
          Create(u, g, start, end)
    \/ \E u \in Renters, g \in AnyGameIDs, start \in StartDates, end \in EndDates,
          hasConflict \in BOOLEAN : CreateBooking(u, g, start, end, hasConflict)
    \/ \E u \in Users : Cancel(u, SecondBooking)
    \/ \E u \in Users : CancelBooking(u, SecondBooking)
    \/ \E u \in Users, gatewayOk \in BOOLEAN : CreatePayment(u, SecondBooking, gatewayOk)
    \/ \E u \in Users, provider \in Providers, gatewayOk \in BOOLEAN :
          CreatePaymentMap(u, SecondBooking, provider, gatewayOk)
    \/ \E status \in WebhookStatuses : ProcessWebhook(SecondBooking, status)
    \/ \E status \in WebhookStatuses : ProcessWebhookMap(SecondBooking, status)

SpecFail == Init /\ [][NextFail]_vars

(***************************************************************************)
(* Booking requests over listings of every kind: the listing's price,      *)
(* deposit, activity and approval are drawn at the start, and the dates of *)
(* a request are instants that need not be a whole number of days apart.   *)
(***************************************************************************)
Prices == {SeedPrice, 15000}
Deposits == {0, 5000}
HourStarts == {Today - DayHours, Today, Today + 12}
HourEnds == {Today - DayHours, Today + 36, Today + 2 * DayHours}

\* Listings of the simple build are created active by an admin and have no
\* approval; approval of the partner build switches is_active on, rejection
\* switches it off.
Listings ==
    IF variant = "simple"
    THEN {<<TRUE, "approved">>, <<FALSE, "approved">>}
    ELSE {<<TRUE, "approved">>, <<FALSE, "pending_approval">>, <<FALSE, "rejected">>}

InitInputs ==
    /\ variant \in Variants
    /\ \E l \in Listings, price \in Prices, deposit \in Deposits :
          games = [g \in GameIDs |->
                     IF g = "g1"
                     THEN PricedGameRow("o1", MaxStock, l[1], l[2], price, deposit)
                     ELSE PricedGameRow("o2", 1, TRUE, "approved", SeedPrice, SeedDeposit)]
    /\ bookings = <<>>
    /\ payments = <<>>
    /\ users = InitUsers
    /\ categories = InitCategories
    /\ disputes = <<>>
    /\ svc = [p \in Procs |-> Idle]
    /\ req = [p \in Procs |-> NoRequest]
    /\ reserveOk = 0
    /\ reserveDec = 0
    /\ ret = NoRet

NextInputs ==
    \/ \E u \in Renters, g \in AnyGameIDs, start \in HourStarts, end \in HourEnds :
          Create(u, g, start, end)
    \/ \E u \in Renters, g \in AnyGameIDs, start \in HourStarts, end \in HourEnds,
          hasConflict \in BOOLEAN : CreateBooking(u, g, start, end, hasConflict)

SpecInputs == InitInputs /\ [][NextInputs]_vars

(***************************************************************************)
(* Handover and return.  PartnerHandler passes the id of the logged-in     *)
(* user as partnerID, so the caller may be any user: a listing's owner,    *)
(* another owner, or the renter.                                           *)
(***************************************************************************)
Callers == Owners \cup Renters

InitPartner == Init /\ variant = "partner"

NextPartner ==
    \/ \E u \in Renters, g \in AnyGameIDs, start \in StartDates, end \in EndDates,
          hasConflict \in BOOLEAN : CreateBooking(u, g, start, end, hasConflict)
    \/ \E u \in Renters, b \in BookingIDs : CancelBooking(u, b)
    \/ \E u \in Renters, b \in BookingIDs, gatewayOk \in BOOLEAN :
          CreatePayment(u, b, gatewayOk)
    \/ \E txn \in TxnIDs, status \in {"paid", "failed"} : ProcessWebhook(txn, status)
    \/ \E caller \in Callers, b \in BookingIDs : ConfirmHandover(caller, b)
    \/ \E caller \in Callers, b \in BookingIDs : ConfirmReturn(caller, b)

SpecPartner == InitPartner /\ [][NextPartner]_vars

(***************************************************************************)
(* The webhook endpoint: PaymentHandler.PaymentWebhook answers 400 for a   *)
(* payload that does not bind or validate and for every error of           *)
(* ProcessWebhook, and 200 otherwise.                                      *)
(***************************************************************************)
PaymentWebhook(err) == IF err = "nil" THEN 200 ELSE 400

(***************************************************************************)
(* Edits of a listing's total stock.  In the simple build's rows the owner  *)
(* column (partner_id here) is the admin who created the listing.          *)
(***************************************************************************)
NewStocks == 0..MaxStock

canManageGames(role) == role \in {"admin", "super_admin"}

\* UPDATE games SET stock = newStock,
\*                  available_stock = LEAST(available_stock, newStock) WHERE id = ?
RepoUpdateStock(game, newStock) ==
    [game EXCEPT !.stock = newStock, !.available_stock = Min(@, newStock)]

\* gameService.UpdateStock(partnerID, gameID, newStock) of the partner build
UpdateStock(partnerID, g, newStock) ==
    /\ variant = "partner"
    /\ LET err == IF g \notin DOMAIN games THEN "ErrGameNotFound"
                  ELSE IF games[g].partner_id # partnerID THEN "ErrGameNotOwned"
                  ELSE "nil"
       IN
        /\ games' = IF err = "nil"
                    THEN [games EXCEPT ![g] = RepoUpdateStock(@, newStock)]
                    ELSE games
        /\ ret' = Ret("UpdateStock", "none", g, 0, err)
    /\ UNCHANGED <<variant, bookings, payments, req>>
    /\ StockFrame

\* gameService.Update(adminID, role, gameID, updateData) of the simple build:
\* the tests, then the fields of updateData copied onto the row read by the
\* service; AvailableStock is not among them.
UpdateErr(adminID, role, g) ==
    IF ~canManageGames(role) THEN "ErrGameInsufficientPermission"
    ELSE IF g \notin DOMAIN games THEN "ErrGameNotFound"
    ELSE IF role # "super_admin" /\ games[g].partner_id # adminID THEN "ErrGameNotOwned"
    ELSE "nil"

\* GameHandler.UpdateGame with req.Stock = reqStock (0: not provided).  The
\* handler adjusts stock and available_stock on its own copy of the row and
\* passes the copy as updateData; the service saves the row it reads itself.
UpdateGame(adminID, role, g, reqStock) ==
    /\ variant = "simple"
    /\ IF g \notin DOMAIN games
       THEN /\ ret' = Ret("UpdateGame", "none", g, 0, "ErrGameNotFound")
            /\ UNCHANGED games
       ELSE LET updateData == IF reqStock > 0
                              THEN [games[g] EXCEPT
                                      !.stock = reqStock,
                                      !.available_stock = @ + (reqStock - games[g].stock)]
                              ELSE games[g]
                err == UpdateErr(adminID, role, g)
            IN
             /\ games' = IF err = "nil"
                         THEN [games EXCEPT ![g].stock = updateData.stock]
                         ELSE games
             /\ ret' = Ret("UpdateGame", "none", g, 0, err)
    /\ UNCHANGED <<variant, bookings, payments, req>>
    /\ StockFrame

NextEdit ==
    \/ \E u \in Renters, g \in AnyGameIDs, start \in StartDates, end \in EndDates :
          Create(u, g, start, end)
    \/ \E u \in Renters, g \in AnyGameIDs, start \in StartDates, end \in EndDates,
          hasConflict \in BOOLEAN : CreateBooking(u, g, start, end, hasConflict)
    \/ \E u \in Renters, b \in BookingIDs : Cancel(u, b)
    \/ \E u \in Renters, b \in BookingIDs : CancelBooking(u, b)
    \/ \E partnerID \in Owners, g \in AnyGameIDs, newStock \in NewStocks :
          UpdateStock(partnerID, g, newStock)
    \/ \E adminID \in Owners, role \in Roles, g \in AnyGameIDs, reqStock \in NewStocks :
          UpdateGame(adminID, role, g, reqStock)

SpecEdit == Init /\ [][NextEdit]_vars

(***************************************************************************)
(* Edits of a listing's price and deposit, next to every operation on a    *)
(* booking of it; one booking is followed through its life.                *)
(***************************************************************************)
\* GameHandler.UpdateGame with req.RentalPricePerDay and req.SecurityDeposit
\* (0: not provided) and gameService.Update of the simple build, which copies
\* both from updateData onto the row.
UpdateGamePrice(adminID, role, g, reqPrice, reqDeposit) ==
    /\ variant = "simple"
    /\ IF g \notin DOMAIN games
       THEN /\ ret' = Ret("UpdateGame", "none", g, 0, "ErrGameNotFound")
            /\ UNCHANGED games
       ELSE LET updateData ==
                  [games[g] EXCEPT
                     !.rental_price_per_day = IF reqPrice > 0 THEN reqPrice ELSE @,
                     !.security_deposit = IF reqDeposit > 0 THEN reqDeposit ELSE @]
                err == UpdateErr(adminID, role, g)
            IN
             /\ games' = IF err = "nil"
                         THEN [games EXCEPT
                                 ![g].rental_price_per_day = updateData.rental_price_per_day,
                                 ![g].security_deposit = updateData.security_deposit]
                         ELSE games
             /\ ret' = Ret("UpdateGame", "none", g, 0, err)
    /\ UNCHANGED <<variant, bookings, payments, req>>
    /\ StockFrame

\* gameService.UpdateGame(partnerID, gameID, updateData) of the partner build:
\* only a listing that is not approved can be edited; a rejected one goes
\* back to pending approval.
PartnerUpdateGame(partnerID, g, price, deposit) ==
    /\ variant = "partner"
    /\ LET err == IF g \notin DOMAIN games THEN "ErrGameNotFound"
                  ELSE IF games[g].partner_id # partnerID THEN "ErrGameNotOwned"
                  ELSE IF games[g].approval_status = "approved"
                       THEN "ErrGameAlreadyApproved"
                  ELSE "nil"
       IN
        /\ games' = IF err = "nil"
                    THEN [games EXCEPT
                            ![g].rental_price_per_day = price,
                            ![g].security_deposit = deposit,
                            ![g].approval_status =
                                IF @ = "rejected" THEN "pending_approval" ELSE @]
                    ELSE games
        /\ ret' = Ret("UpdateGame", "none", g, 0, err)
    /\ UNCHANGED <<variant, bookings, payments, req>>
    /\ StockFrame

\* The request that creates the booking that is followed.
FirstCreate(u, g, end) == bookings = <<>> /\ Create(u, g, Today, end)

FirstCreateBooking(u, g, end) == bookings = <<>> /\ CreateBooking(u, g, Today, end, FALSE)

NextFrozen ==
    \/ \E u \in Renters, g \in GameIDs, end \in EndDates : FirstCreate(u, g, end)
    \/ \E u \in Renters, g \in GameIDs, end \in EndDates : FirstCreateBooking(u, g, end)
    \/ \E u \in Renters, b \in BookingIDs : Cancel(u, b)
    \/ \E u \in Renters, b \in BookingIDs : CancelBooking(u, b)
    \/ \E b \in BookingIDs, status \in BookingStatuses : UpdateStatus("admin", b, status)
    \/ \E b \in BookingIDs, status \in BookingStatuses :
          ForceUpdateBookingStatus("admin", b, status)
    \/ \E partner \in Owners, b \in BookingIDs : ConfirmHandover(partner, b)
    \/ \E partner \in Owners, b \in BookingIDs : ConfirmReturn(partner, b)
    \/ \E u \in Renters, b \in BookingIDs : CreatePayment(u, b, TRUE)
    \/ \E u \in Renters, b \in BookingIDs : CreatePaymentMap(u, b, "midtrans", TRUE)
    \/ \E txn \in TxnIDs, status \in {"paid", "failed"} : ProcessWebhook(txn, status)
    \/ \E txn \in TxnIDs, status \in {"settlement", "deny"} : ProcessWebhookMap(txn, status)
    \/ \E adminID \in Owners, g \in GameIDs, reqPrice \in Prices, reqDeposit \in Deposits :
          UpdateGamePrice(adminID, "admin", g, reqPrice, reqDeposit)
    \/ \E partnerID \in Owners, g \in GameIDs, price \in Prices, deposit \in Deposits :
          PartnerUpdateGame(partnerID, g, price, deposit)

SpecFrozen == Init /\ [][NextFrozen]_vars

(***************************************************************************)
(* Concurrent payment requests: CreatePayment reads the booking and looks  *)
(* for an existing payment, then inserts the row in a second statement.    *)
(* payments.booking_id has no unique index.                                *)
(***************************************************************************)
\* CreatePayment up to and including paymentRepo.GetByBookingID
CreatePaymentCheck(p, u, b) ==
    /\ req[p].pc = "idle"
    /\ LET err == IF variant = "partner" THEN CreatePaymentErr(u, b)
                  ELSE CreatePaymentMapErr(u, b)
       IN
        IF err = "nil"
        THEN /\ req' = [req EXCEPT ![p] = [NoRequest EXCEPT !.pc = "insert", !.user = u,
                                              !.booking = b]]
             /\ UNCHANGED ret
        ELSE /\ ret' = PaymentRet("CreatePayment", u, b, 0,
                                  IF err = "existing" THEN "nil" ELSE err)
             /\ UNCHANGED req
    /\ UNCHANGED <<variant, games, bookings, payments>>
    /\ StockFrame

\* paymentRepo.Create, the gateway charge and paymentRepo.Update
CreatePaymentInsert(p, gatewayOk) ==
    /\ req[p].pc = "insert"
    /\ LET b == req[p].booking IN
        IF gatewayOk
        THEN /\ payments' = Append(payments, [NewPayment(b) EXCEPT !.provider_payment_id = b])
             /\ ret' = PaymentRet("CreatePayment", req[p].user, b, b, "nil")
        ELSE /\ payments' = Append(payments, NewPayment(b))
             /\ ret' = PaymentRet("CreatePayment", req[p].user, b, 0, "ErrPaymentGateway")
    /\ req' = [req EXCEPT ![p] = NoRequest]
    /\ UNCHANGED <<variant, games, bookings>>
    /\ StockFrame

NextPay ==
    \/ \E u \in Renters, g \in AnyGameIDs, start \in StartDates, end \in EndDates :
          Create(u, g, start, end)
    \/ \E u \in Renters, g \in AnyGameIDs, start \in StartDates, end \in EndDates,
          hasConflict \in BOOLEAN : CreateBooking(u, g, start, end, hasConflict)
    \/ \E u \in Users, b \in BookingIDs : Cancel(u, b)
    \/ \E u \in Users, b \in BookingIDs : CancelBooking(u, b)
    \/ \E p \in Procs, u \in Users, b \in BookingIDs : CreatePaymentCheck(p, u, b)
    \/ \E p \in Procs, gatewayOk \in BOOLEAN : CreatePaymentInsert(p, gatewayOk)

SpecPay == Init /\ [][NextPay]_vars

(***************************************************************************)
(* User management.  The requester is an account of the table and calls    *)
(* with the role it has; the simple build runs the user service with the   *)
(* role tests on super_admin targets, the partner build the one without.   *)
(***************************************************************************)
canManageUsers(role) == role \in {"admin", "super_admin"}

UserRet(op, requestor, err) == Ret(op, requestor, NoGame, 0, err)

\* userService.UpdateUserRole(requestorRole, userID, newRole)
UpdateUserRoleErr(requestorRole, userID, newRole) ==
    IF ~canManageUsers(requestorRole) THEN "ErrInsufficientPermission"
    ELSE IF variant = "partner" THEN "nil"
    ELSE IF userID \notin DOMAIN users THEN "ErrUserNotFound"
    ELSE IF newRole \notin {"customer", "admin", "super_admin"} THEN "invalid role"
    ELSE IF requestorRole = "admin" /\ users[userID].role = "super_admin"
         THEN "admin cannot modify super admin role"
    ELSE IF requestorRole = "admin" /\ newRole = "super_admin"
         THEN "admin cannot promote user to super admin"
    ELSE IF newRole = "super_admin" /\ requestorRole # "super_admin"
         THEN "only super admin can assign super admin role"
    ELSE "nil"

\* userRepo.UpdateRole: UPDATE users SET role = ? WHERE id = ?
RepoUpdateRole(userID, newRole) ==
    IF userID \in DOMAIN users THEN [users EXCEPT ![userID].role = newRole] ELSE users

UpdateUserRole(requestor, userID, newRole) ==
    /\ requestor \in DOMAIN users
    /\ LET err == UpdateUserRoleErr(users[requestor].role, userID, newRole) IN
        /\ users' = IF err = "nil" THEN RepoUpdateRole(userID, newRole) ELSE users
        /\ ret' = UserRet("UpdateUserRole", requestor, err)
    /\ UNCHANGED <<variant, games, bookings, payments, categories, disputes, svc, req, reserveOk, reserveDec>>

\* userService.ToggleUserStatus(requestorRole, userID)
ToggleUserStatusErr(requestorRole, userID) ==
    IF ~canManageUsers(requestorRole) THEN "ErrInsufficientPermission"
    ELSE IF userID \notin DOMAIN users THEN "ErrUserNotFound"
    ELSE IF variant = "partner" THEN "nil"
    ELSE IF requestorRole = "admin" /\ users[userID].role = "super_admin"
         THEN "admin cannot modify super admin status"
    ELSE IF users[userID].role = "super_admin" /\ requestorRole # "super_admin"
         THEN "ErrCannotDeleteSuperAdmin"
    ELSE "nil"

ToggleUserStatus(requestor, userID) ==
    /\ requestor \in DOMAIN users
    /\ LET err == ToggleUserStatusErr(users[requestor].role, userID) IN
        /\ users' = IF err = "nil"
                    THEN [users EXCEPT ![userID].is_active = ~@]
                    ELSE users
        /\ ret' = UserRet("ToggleUserStatus", requestor, err)
    /\ UNCHANGED <<variant, games, bookings, payments, categories, disputes, svc, req, reserveOk, reserveDec>>

DeleteUserErrSuperAdminOnly(requestorID, requestorRole, targetUserID) ==
    IF requestorRole # "super_admin" THEN "ErrInsufficientPermission"
    ELSE IF requestorID = targetUserID THEN "ErrCannotDeleteSelf"
    ELSE IF targetUserID \notin DOMAIN users THEN "ErrUserNotFound"
    ELSE IF users[targetUserID].role = "super_admin" THEN "ErrCannotDeleteSuperAdmin"
    ELSE "nil"

\* userService.DeleteUser(requestorID, requestorRole, targetUserID)
DeleteUserErr(requestorID, requestorRole, targetUserID) ==
    IF variant = "partner"
    THEN DeleteUserErrSuperAdminOnly(requestorID, requestorRole, targetUserID)
    ELSE IF requestorRole # "admin" /\ requestorRole # "super_admin"
         THEN "ErrInsufficientPermission"
    ELSE IF requestorID = targetUserID THEN "ErrCannotDeleteSelf"
    ELSE IF targetUserID \notin DOMAIN users THEN "ErrUserNotFound"
    ELSE IF requestorRole = "admin" /\ users[targetUserID].role = "super_admin"
         THEN "admin cannot delete super admin"
    ELSE IF users[targetUserID].role = "super_admin" /\ requestorRole # "super_admin"
         THEN "ErrCannotDeleteSuperAdmin"
    ELSE "nil"

\* userRepo.Delete: the row is gone
RepoDeleteUser(targetUserID) == [id \in DOMAIN users \ {targetUserID} |-> users[id]]

DeleteUser(requestor, targetUserID) ==
    /\ requestor \in DOMAIN users
    /\ LET err == DeleteUserErr(requestor, users[requestor].role, targetUserID) IN
        /\ users' = IF err = "nil" THEN RepoDeleteUser(targetUserID) ELSE users
        /\ ret' = UserRet("DeleteUser", requestor, err)
    /\ UNCHANGED <<variant, games, bookings, payments, categories, disputes, svc, req, reserveOk, reserveDec>>

NextUsers ==
    \/ \E requestor \in AccountIDs, userID \in AccountIDs, newRole \in Roles :
          UpdateUserRole(requestor, userID, newRole)
    \/ \E requestor \in AccountIDs, userID \in AccountIDs :
          ToggleUserStatus(requestor, userID)
    \/ \E requestor \in AccountIDs, targetUserID \in AccountIDs :
          DeleteUser(requestor, targetUserID)

SpecUsers == Init /\ [][NextUsers]_vars

(***************************************************************************)
(* Administration: categories (internal/service/category_service.go) and   *)
(* disputes (disputeService).  The role is the one carried by the caller's *)
(* token.                                                                  *)
(***************************************************************************)
MaxDisputes == 1

CategoryIDs == 1..Cardinality(CategoryNames)

\* categoryRepo.GetByID: rows deleted softly are not found
CategoryFound(c) == c \in DOMAIN categories /\ ~categories[c].deleted

\* name carries a unique index
NameTaken(name, except) ==
    \E c \in DOMAIN categories : c # except /\ categories[c].name = name

AdminRet(op, role, err) == [NoRet EXCEPT !.op = op, !.arg = role, !.err = err]

canManageCategoriesAnyRole(role) == TRUE

\* categoryService.canManageCategories
canManageCategories(role) == role \in {"admin", "super_admin"}

AdminFrame ==
    UNCHANGED <<variant, games, bookings, payments, users, svc, req, reserveOk, reserveDec>>

\* categoryService.CreateCategory(requestorRole, categoryData)
CreateCategory(requestorRole, name) ==
    /\ LET err == IF ~canManageCategories(requestorRole) THEN "ErrInsufficientPermission"
                  ELSE IF NameTaken(name, 0) THEN "duplicate key"
                  ELSE "nil"
       IN
        /\ categories' = IF err = "nil"
                         THEN Append(categories, CategoryRow(name, TRUE, FALSE))
                         ELSE categories
        /\ ret' = AdminRet("CreateCategory", requestorRole, err)
    /\ UNCHANGED disputes
    /\ AdminFrame

\* categoryService.UpdateCategory(requestorRole, categoryID, updateData)
UpdateCategory(requestorRole, categoryID, name) ==
    /\ LET err == IF ~canManageCategories(requestorRole) THEN "ErrInsufficientPermission"
                  ELSE IF ~CategoryFound(categoryID) THEN "ErrCategoryNotFound"
                  ELSE IF NameTaken(name, categoryID) THEN "duplicate key"
                  ELSE "nil"
       IN
        /\ categories' = IF err = "nil"
                         THEN [categories EXCEPT ![categoryID].name = name]
                         ELSE categories
        /\ ret' = AdminRet("UpdateCategory", requestorRole, err)
    /\ UNCHANGED disputes
    /\ AdminFrame

\* categoryService.DeleteCategory(requestorRole, categoryID)
DeleteCategory(requestorRole, categoryID) ==
    /\ LET err == IF ~canManageCategories(requestorRole) THEN "ErrInsufficientPermission"
                  ELSE IF categoryID \in DOMAIN categories
                          /\ categories[categoryID].has_games
                       THEN "ErrCategoryHasGames"
                  ELSE "nil"
       IN
        /\ categories' = IF err = "nil" /\ CategoryFound(categoryID)
                         THEN [categories EXCEPT ![categoryID].deleted = TRUE]
                         ELSE categories
        /\ ret' = AdminRet("DeleteCategory", requestorRole, err)
    /\ UNCHANGED disputes
    /\ AdminFrame

\* categoryService.ToggleCategoryStatus(requestorRole, categoryID)
ToggleCategoryStatus(requestorRole, categoryID) ==
    /\ LET err == IF ~canManageCategories(requestorRole) THEN "ErrInsufficientPermission"
                  ELSE IF ~CategoryFound(categoryID) THEN "ErrCategoryNotFound"
                  ELSE "nil"
       IN
        /\ categories' = IF err = "nil"
                         THEN [categories EXCEPT ![categoryID].is_active = ~@]
                         ELSE categories
        /\ ret' = AdminRet("ToggleCategoryStatus", requestorRole, err)
    /\ UNCHANGED disputes
    /\ AdminFrame

DisputeIDs == 1..MaxDisputes

DisputeRow(b, reporter) ==
    [booking_id |-> b, reporter_id |-> reporter, status |-> "open", resolved_by |-> "none"]

DisputeFrame ==
    UNCHANGED <<variant, games, payments, users, categories, svc, req, reserveOk, reserveDec>>

\* disputeService.CreateDispute(reporterID, bookingID, disputeData)
CreateDisputeErr(reporterID, bookingID) ==
    IF ~BookingExists(bookingID) THEN "ErrBookingNotFound"
    ELSE IF bookings[bookingID].user_id # reporterID
            /\ bookings[bookingID].partner_id # reporterID
         THEN "ErrCannotCreateDispute"
    ELSE IF bookings[bookingID].status \notin {"confirmed", "active", "completed"}
         THEN "ErrCannotCreateDispute"
    ELSE "nil"

CreateDispute(reporterID, bookingID) ==
    /\ variant = "partner"
    /\ Len(disputes) < MaxDisputes
    /\ LET err == CreateDisputeErr(reporterID, bookingID) IN
        /\ bookings' = IF err = "nil" THEN RepoUpdateStatus(bookingID, "disputed")
                       ELSE bookings
        /\ disputes' = IF err = "nil"
                       THEN Append(disputes, DisputeRow(bookingID, reporterID))
                       ELSE disputes
        /\ ret' = RetOf("CreateDispute", reporterID, bookingID, err)
    /\ DisputeFrame

\* disputeService.canManageDisputes
canManageDisputes(role) == role \in {"admin", "super_admin"}

\* disputeRepo.UpdateDisputeStatus: resolved_by is written for resolved and closed
RepoUpdateDisputeStatus(d, status, resolvedBy) ==
    IF status \in {"resolved", "closed"}
    THEN [disputes EXCEPT ![d].status = status, ![d].resolved_by = resolvedBy]
    ELSE [disputes EXCEPT ![d].status = status]

\* disputeService.InvestigateDispute(adminID, requestorRole, disputeID)
InvestigateDispute(adminID, requestorRole, disputeID) ==
    /\ variant = "partner"
    /\ LET err == IF ~canManageDisputes(requestorRole) THEN "ErrInsufficientPermission"
                  ELSE IF disputeID \notin DOMAIN disputes THEN "ErrDisputeNotFound"
                  ELSE IF disputes[disputeID].status # "open"
                       THEN "can only investigate open disputes"
                  ELSE "nil"
       IN
        /\ disputes' = IF err = "nil"
                       THEN RepoUpdateDisputeStatus(disputeID, "investigating", adminID)
                       ELSE disputes
        /\ ret' = AdminRet("InvestigateDispute", requestorRole, err)
    /\ UNCHANGED bookings
    /\ DisputeFrame

\* disputeService.ResolveDispute(adminID, requestorRole, disputeID, resolution)
ResolveDispute(adminID, requestorRole, disputeID) ==
    /\ variant = "partner"
    /\ LET err == IF ~canManageDisputes(requestorRole) THEN "ErrInsufficientPermission"
                  ELSE IF disputeID \notin DOMAIN disputes THEN "ErrDisputeNotFound"
                  ELSE IF disputes[disputeID].status \in {"resolved", "closed"}
                       THEN "ErrDisputeAlreadyResolved"
                  ELSE "nil"
       IN
        /\ disputes' = IF err = "nil"
                       THEN RepoUpdateDisputeStatus(disputeID, "resolved", adminID)
                       ELSE disputes
        /\ ret' = AdminRet("ResolveDispute", requestorRole, err)
    /\ UNCHANGED bookings
    /\ DisputeFrame

\* disputeService.CloseDispute(adminID, requestorRole, disputeID, resolution):
\* the dispute is closed and its booking is set to completed
CloseDispute(adminID, requestorRole, disputeID) ==
    /\ variant = "partner"
    /\ LET err == IF ~canManageDisputes(requestorRole) THEN "ErrInsufficientPermission"
                  ELSE IF disputeID \notin DOMAIN disputes THEN "ErrDisputeNotFound"
                  ELSE IF disputes[disputeID].status = "closed"
                       THEN "dispute already closed"
                  ELSE "nil"
       IN
        /\ disputes' = IF err = "nil"
                       THEN RepoUpdateDisputeStatus(disputeID, "closed", adminID)
                       ELSE disputes
        /\ bookings' = IF err = "nil"
                       THEN RepoUpdateStatus(disputes[disputeID].booking_id, "completed")
                       ELSE bookings
        /\ ret' = AdminRet("CloseDispute", requestorRole, err)
    /\ DisputeFrame

(***************************************************************************)
(* SpecAdmin: the operations reserved to administrators, called with every *)
(* role, on one booking, the seeded category and the disputes raised.      *)
(***************************************************************************)
Admins == {"adm"}
CallerRoles == {"customer", "partner", "admin"}
StatusUpdates == {"confirmed", "completed"}

NextAdmin ==
    \/ \E u \in Renters, g \in GameIDs : FirstCreate(u, g, Today)
    \/ \E u \in Renters, g \in GameIDs : FirstCreateBooking(u, g, Today)
    \/ \E role \in CallerRoles, b \in BookingIDs, status \in StatusUpdates :
          UpdateStatus(role, b, status)
    \/ \E role \in CallerRoles, b \in BookingIDs, status \in StatusUpdates :
          ForceUpdateBookingStatus(role, b, status)
    \/ \E role \in CallerRoles, name \in CategoryNames : CreateCategory(role, name)
    \/ \E role \in CallerRoles, c \in CategoryIDs, name \in CategoryNames :
          UpdateCategory(role, c, name)
    \/ \E role \in CallerRoles, c \in CategoryIDs : DeleteCategory(role, c)
    \/ \E role \in CallerRoles, c \in CategoryIDs : ToggleCategoryStatus(role, c)
    \/ \E u \in Renters, b \in BookingIDs : CreateDispute(u, b)
    \/ \E a \in Admins, role \in CallerRoles, d \in DisputeIDs :
          InvestigateDispute(a, role, d)
    \/ \E a \in Admins, role \in CallerRoles, d \in DisputeIDs :
          ResolveDispute(a, role, d)
    \/ \E a \in Admins, role \in CallerRoles, d \in DisputeIDs :
          CloseDispute(a, role, d)
    \/ \E requestor \in Renters, userID \in AccountIDs, newRole \in Roles :
          UpdateUserRole(requestor, userID, newRole)
    \/ \E requestor \in Renters, userID \in AccountIDs :
          ToggleUserStatus(requestor, userID)
    \/ \E requestor \in Renters, targetUserID \in AccountIDs :
          DeleteUser(requestor, targetUserID)

SpecAdmin == Init /\ [][NextAdmin]_vars

(***************************************************************************)
(* Authentication: AuthHandler.Register and AuthHandler.Login with         *)
(* userService.Register and userService.Login.  A request body is what the *)
(* client sent: whether it binds as JSON, and the fields it carries.       *)
(***************************************************************************)
Emails == {"", "invalid-email", "test@example.com", "new@example.com"}
Passwords == {"", "pass", "password123"}
FullNames == {"", "T", "Test User"}
Phones == {"", "0812", "081234567893"}

\* The length of the strings sent.
StrLen(s) ==
    CASE s = "" -> 0
      [] s = "T" -> 1
      [] s = "pass" -> 4
      [] s = "0812" -> 4
      [] s = "Test User" -> 9
      [] s = "password123" -> 11
      [] s = "081234567893" -> 12
      [] s = "invalid-email" -> 13
      [] s = "new@example.com" -> 15
      [] s = "test@example.com" -> 16

\* validate:"email": a local part, an at sign and a domain
IsEmail(s) == s \in {"test@example.com", "new@example.com"}

RegisterBodies ==
    [binds : BOOLEAN, email : Emails, password : Passwords, full_name : FullNames,
     phone : Phones]

LoginBodies == [binds : BOOLEAN, email : Emails, password : Passwords]

\* dto.RegisterRequest: email "required,email", password "required,min=8",
\* full_name "required,min=2", phone "omitempty,min=10"
ValidRegisterRequest(r) ==
    /\ r.email # "" /\ IsEmail(r.email)
    /\ r.password # "" /\ StrLen(r.password) >= 8
    /\ r.full_name # "" /\ StrLen(r.full_name) >= 2
    /\ r.phone = "" \/ StrLen(r.phone) >= 10

\* dto.LoginRequest: email "required,email", password "required"
ValidLoginRequest(r) ==
    /\ r.email # "" /\ IsEmail(r.email)
    /\ r.password # ""

AuthStageNoValidate(binds, valid) == IF ~binds THEN "Invalid input" ELSE "service"

\* The handler's steps before the service: c.Bind, then h.validate.Struct.
AuthStage(binds, valid) ==
    IF ~binds THEN "Invalid input"
    ELSE IF ~valid THEN "Validation error"
    ELSE "service"

\* userService.Register(registerData)
RegisterErr(r) ==
    IF variant = "partner" THEN "not implemented yet"
    ELSE IF r.email \in DOMAIN users THEN "email already exists"
    ELSE "nil"

\* userRepo.Create of the row userService.Register builds
RegisteredUsers(r) ==
    [id \in DOMAIN users \cup {r.email} |->
        IF id = r.email
        THEN [role |-> "customer", is_active |-> TRUE,
              password |-> HashPassword(r.password)]
        ELSE users[id]]

\* userService.Login(loginData, jwtSecret)
LoginErr(r) ==
    IF variant = "partner" THEN "not implemented yet"
    ELSE IF r.email \notin DOMAIN users THEN "invalid credentials"
    ELSE IF ~CheckPassword(users[r.email].password, r.password)
         THEN "invalid credentials"
    ELSE IF ~users[r.email].is_active THEN "account is inactive"
    ELSE "nil"

AuthRet(op, email, called, token, err, code) ==
    [NoRet EXCEPT !.op = op, !.actor = email, !.called = called, !.arg = token,
                  !.err = err, !.code = code]

AuthFrame ==
    UNCHANGED <<variant, games, bookings, payments, categories, disputes, svc, req,
                reserveOk, reserveDec>>

\* AuthHandler.Register: 400 for a body that does not bind or validate and
\* for an error of the service, 201 otherwise
AuthRegister(r) ==
    /\ LET stage == AuthStage(r.binds, ValidRegisterRequest(r))
           err == IF stage = "service" THEN RegisterErr(r) ELSE stage
       IN
        /\ users' = IF err = "nil" THEN RegisteredUsers(r) ELSE users
        /\ ret' = AuthRet("AuthHandler.Register", r.email,
                          IF stage = "service" THEN "Register" ELSE "none",
                          "none", err, IF err = "nil" THEN 201 ELSE 400)
    /\ AuthFrame

\* AuthHandler.Login: 400 for a body that does not bind or validate, 401 for
\* an error of the service, 200 with the access token otherwise
AuthLogin(r) ==
    /\ LET stage == AuthStage(r.binds, ValidLoginRequest(r))
           err == IF stage = "service" THEN LoginErr(r) ELSE stage
       IN
        /\ ret' = AuthRet("AuthHandler.Login", r.email,
                          IF stage = "service" THEN "Login" ELSE "none",
                          IF err = "nil" THEN "access_token" ELSE "none",
                          err,
                          IF stage # "service" THEN 400
                          ELSE IF err # "nil" THEN 401 ELSE 200)
    /\ UNCHANGED users
    /\ AuthFrame

\* An administrator disables or enables an account, registered ones included.
NextAuth ==
    \/ \E r \in RegisterBodies : AuthRegister(r)
    \/ \E r \in LoginBodies : AuthLogin(r)
    \/ \E userID \in AccountIDs \cup Emails : ToggleUserStatus("root", userID)

SpecAuth == Init /\ [][NextAuth]_vars

(***************************************************************************)
(* Create and CreateBooking with the outcome of bookingRepo.Create as an   *)
(* input: the INSERT can fail (a lost connection, a constraint of the      *)
(* table) after ReserveStock has returned.                                 *)
(***************************************************************************)
\* bookingService.Create: the lines after ReserveStock when the INSERT fails
CreateInsertFails(u, g, start, end) ==
    /\ variant = "simple"
    /\ Len(bookings) < MaxBookings
    /\ CreateErr(g, start, end) = "nil"
    /\ games' = [games EXCEPT ![g] = RepoReserveRow(@)]
    /\ ret' = [RetOf("Create", "none", 0, "insert failed")
                 EXCEPT !.game = g, !.before = games[g].available_stock]
    /\ UNCHANGED <<variant, bookings, payments, req>>
    /\ StockFrame

\* bookingService.CreateBooking: the same lines of the partner build
CreateBookingInsertFails(u, g, start, end) ==
    /\ variant = "partner"
    /\ Len(bookings) < MaxBookings
    /\ CreateBookingErr(g, start, end, FALSE) = "nil"
    /\ games' = [games EXCEPT ![g] = PartnerReserveRow(@)]
    /\ ret' = [RetOf("CreateBooking", "none", 0, "insert failed")
                 EXCEPT !.game = g, !.before = games[g].available_stock]
    /\ UNCHANGED <<variant, bookings, payments, req>>
    /\ StockFrame

NextInsert ==
    \/ \E u \in Renters, g \in AnyGameIDs, start \in StartDates, end \in EndDates :
          Create(u, g, start, end)
    \/ \E u \in Renters, g \in AnyGameIDs, start \in StartDates, end \in EndDates :
          CreateInsertFails(u, g, start, end)
    \/ \E u \in Renters, g \in AnyGameIDs, start \in StartDates, end \in EndDates,
          hasConflict \in BOOLEAN : CreateBooking(u, g, start, end, hasConflict)
    \/ \E u \in Renters, g \in AnyGameIDs, start \in StartDates, end \in EndDates :
          CreateBookingInsertFails(u, g, start, end)
    \/ \E u \in Renters, b \in BookingIDs : Cancel(u, b)
    \/ \E u \in Renters, b \in BookingIDs : CancelBooking(u, b)

SpecInsert == Init /\ [][NextInsert]_vars

(***************************************************************************)
(* Properties of the stock ledger (SpecStock).                             *)
(***************************************************************************)

\* C1: for every item, 0 <= available_stock <= stock in every state reached by
\* reserve and release calls, the two-statement service calls of concurrent
\* requests interleaved in every order.
C1_StockWithinBounds ==
    \A g \in DOMAIN games :
        /\ 0 <= games[g].available_stock
        /\ games[g].available_stock <= games[g].stock

\* A release arrived at an item whose stock was full, and was clamped.
C1_Witness ==
    /\ ret.op \in {"ReleaseStock", "SvcReleaseStock"}
    /\ ret.before = games[ret.game].stock
    /\ games[ret.game].available_stock = games[ret.game].stock

NoReserveInFlight == \A p \in Procs : svc[p].pc # "reserve_write"

\* C3: reserve is one atomic conditional update: once the reserve calls have
\* returned, available_stock has gone down by exactly the units of the calls
\* that returned success.
C3_DecreaseEqualsSuccesses ==
    NoReserveInFlight => reserveDec = reserveOk

\* C4: a reserve call that finds available_stock = 0 returns
\* ErrGameStockInsufficient and leaves available_stock at 0.
C4_ReserveAtZeroFails ==
    (ret.op \in {"ReserveStock", "SvcReserveStock"} /\ ret.before = 0)
        => /\ ret.err = "ErrGameStockInsufficient"
           /\ games[ret.game].available_stock = 0

(***************************************************************************)
(* Properties of concurrent booking requests (SpecCreate).                 *)
(***************************************************************************)
HoldsUnit(b) == b.status \in {"pending_payment", "confirmed", "active"}

Held(g) == Cardinality({b \in DOMAIN bookings :
                          bookings[b].game_id = g /\ HoldsUnit(bookings[b])})

\* C2: of two concurrent Create calls on an item with one unit left exactly one
\* creates a booking and the other returns StockInsufficient: the bookings of
\* an item that hold a unit never outnumber its stock, and a Create that
\* inserted a booking row reserved while a unit was available.
C2_OneUnitOneBooking ==
    /\ \A g \in DOMAIN games : Held(g) <= games[g].stock
    /\ (ret.op \in {"Create", "CreateBooking"} /\ ret.booking # 0) => ret.before > 0

(***************************************************************************)
(* Properties of the booking and payment flow (Spec).                      *)
(***************************************************************************)
Terminal(status) == status \in {"completed", "cancelled"}

\* C5: once a booking is completed or cancelled, no operation changes its
\* status again.
C5_TerminalStatusFinal ==
    [][\A b \in DOMAIN bookings :
          Terminal(bookings[b].status) => bookings'[b].status = bookings[b].status]_vars

\* The outcome a build reads from the status word of a webhook
WebhookOutcome(status) ==
    IF variant = "partner"
    THEN IF status \in PaidWords THEN "paid"
         ELSE IF status \in FailedWords THEN "failed"
         ELSE "unknown"
    ELSE MapStatus(status)

\* The step processes a webhook of the given outcome for a payment that
\* already has the status of that outcome.
Redelivery(outcome) ==
    /\ ret'.op = "ProcessWebhook"
    /\ WebhookOutcome(ret'.arg) = outcome
    /\ GetByProviderPaymentID(ret'.txn) # 0
    /\ payments[GetByProviderPaymentID(ret'.txn)].status = outcome

\* C6: a paid webhook delivered again for a transaction whose payment the
\* first delivery marked paid changes neither the bookings, nor the payment
\* rows, nor the stock.
C6_PaidRedeliveryChangesNothing ==
    [][Redelivery("paid") => UNCHANGED <<bookings, payments, games>>]_vars

\* C7: a failed webhook delivered for a payment that is already failed returns
\* success without invoking FailPayment, so the stock is not released again.
C7_FailedRedeliveryShortCircuits ==
    [][Redelivery("failed") =>
          /\ ret'.called = "none"
          /\ ret'.err = "nil"
          /\ UNCHANGED <<bookings, games>>]_vars

\* C8: once a payment is paid or failed, no later webhook changes its status.
C8_PaymentOutcomeFinal ==
    [][\A p \in DOMAIN payments :
          payments[p].status \in {"paid", "failed"}
            => payments'[p].status = payments[p].status]_vars

\* C9: ConfirmPayment sets a booking to confirmed exactly when the booking is
\* in pending_payment; on any other status it returns an error and leaves the
\* status as it was.
C9_ConfirmPaymentOnlyFromPending ==
    [][ret'.called = "ConfirmPayment" =>
          IF bookings[ret'.booking].status = "pending_payment"
          THEN ret'.err = "nil" /\ bookings'[ret'.booking].status = "confirmed"
          ELSE ret'.err # "nil" /\ bookings' = bookings]_vars

C9_Witness ==
    /\ ret.called = "ConfirmPayment"
    /\ ret.err = "ErrBookingNotPending"
    /\ bookings[ret.booking].status \in {"active", "completed", "cancelled"}

\* C10: Cancel by the renter of a booking that is active or completed fails
\* with ErrBookingCannotCancel and changes neither the booking nor the stock.
C10_CancelActiveOrCompletedFails ==
    [][(/\ ret'.op \in {"Cancel", "CancelBooking"}
        /\ BookingExists(ret'.booking)
        /\ bookings[ret'.booking].user_id = ret'.actor
        /\ bookings[ret'.booking].status \in {"active", "completed"})
       => /\ ret'.err = "ErrBookingCannotCancel"
          /\ UNCHANGED <<bookings, games>>]_vars

C10_Witness ==
    /\ ret.op \in {"Cancel", "CancelBooking"}
    /\ ret.err = "ErrBookingCannotCancel"
    /\ bookings[ret.booking].user_id = ret.actor
    /\ bookings[ret.booking].status \in {"active", "completed"}

(***************************************************************************)
(* Properties of concurrent cancel requests (SpecCancel).                  *)
(***************************************************************************)
NoCancelInFlight == \A p \in Procs : req[p].pc = "idle"

\* C11: a booking is cancelled by Cancel exactly when its unit was released
\* by that Cancel: whenever no Cancel is in progress, the units out of an
\* item's stock are the units of its bookings that are not cancelled.
C11_CancelReleasesOnce ==
    NoCancelInFlight =>
        \A g \in DOMAIN games : games[g].stock - games[g].available_stock = Held(g)

(***************************************************************************)
(* Properties of payment failure (SpecFail).                               *)
(***************************************************************************)
\* C12: FailPayment on a booking puts the item's available_stock back to the
\* value it had just before that booking's reservation.  In SpecFail booking
\* 1 took the first unit and never changes afterwards, so the value before
\* the second booking's reservation is stock - 1.
C12_FailPaymentRestoresStock ==
    (ret.called = "FailPayment" /\ ret.err = "nil" /\ ret.booking = SecondBooking) =>
        LET g == bookings[SecondBooking].game_id IN
            games[g].available_stock = games[g].stock - 1

(***************************************************************************)
(* Properties of booking requests (SpecInputs).                            *)
(***************************************************************************)
\* C13: every stored booking has rental_days = whole days between its dates
\* plus one, total_rental_price = rental_days x the listing's price per day
\* and total_amount = total_rental_price + the listing's deposit.
C13_BookingAmounts ==
    \A b \in DOMAIN bookings :
        LET r == bookings[b]
            game == games[r.game_id]
            wholeDays == r.rental_days - 1
        IN  /\ r.start_date <= r.end_date
            /\ wholeDays * DayHours <= r.end_date - r.start_date
            /\ r.end_date - r.start_date < (wholeDays + 1) * DayHours
            /\ r.total_rental_price = r.rental_days * game.rental_price_per_day
            /\ r.total_amount = r.total_rental_price + game.security_deposit

\* The example: two whole days apart at 10000 a day with deposit 5000.
C13_Witness ==
    \E b \in DOMAIN bookings :
        /\ bookings[b].end_date - bookings[b].start_date = 2 * DayHours
        /\ games[bookings[b].game_id].rental_price_per_day = 10000
        /\ games[bookings[b].game_id].security_deposit = 5000
        /\ bookings[b].rental_days = 3
        /\ bookings[b].total_rental_price = 30000
        /\ bookings[b].total_amount = 35000

\* C14: a request whose end date is before its start date fails with the
\* invalid-date error whatever the other inputs are (unknown, inactive or
\* unapproved listing, no stock), reserves nothing and creates no booking.
C14_EndBeforeStartIsInvalidDate ==
    [][\A u \in Renters, g \in AnyGameIDs, start \in HourStarts, end \in HourEnds :
          (/\ end < start
           /\ \/ Create(u, g, start, end)
              \/ \E hasConflict \in BOOLEAN : CreateBooking(u, g, start, end, hasConflict))
          => /\ ret'.err = "ErrBookingInvalidDate"
             /\ UNCHANGED <<games, bookings>>]_vars

Bookable(game) == game.is_active /\ game.approval_status = "approved"

\* C15: a request for a listing that is not approved and active fails with an
\* error, reserves no stock and creates no booking; every booking row is for
\* a listing that is approved and active.
C15_OnlyApprovedActiveIsBooked ==
    [][/\ \A u \in Renters, g \in GameIDs, start \in HourStarts, end \in HourEnds :
            (/\ ~Bookable(games[g])
             /\ \/ Create(u, g, start, end)
                \/ \E hasConflict \in BOOLEAN : CreateBooking(u, g, start, end, hasConflict))
            => /\ ret'.err # "nil"
               /\ UNCHANGED <<games, bookings>>
       /\ \A b \in DOMAIN bookings' : Bookable(games[bookings'[b].game_id])]_vars

\* A request for a listing that is not bookable was refused while another
\* listing has a booking.
C15_Witness ==
    /\ ret.op \in {"Create", "CreateBooking"}
    /\ ret.err \in {"ErrGameNotAvailable", "ErrBookingGameNotActive"}
    /\ \E g \in GameIDs : ~Bookable(games[g])
    /\ bookings # <<>>

(***************************************************************************)
(* Properties of handover and return (SpecPartner).                        *)
(***************************************************************************)
ItemOwner(b) == games[bookings[b].game_id].partner_id

\* C16: ConfirmHandover sets a booking to active exactly when the booking is
\* confirmed and the caller is the owner of the booked listing; a caller who
\* is not the owner (the renter included) gets ErrBookingNotOwned, any other
\* status gets an error, and in both cases nothing changes.
C16_HandoverByOwnerFromConfirmed ==
    [][\A b \in DOMAIN bookings :
          (ret'.op = "ConfirmHandover" /\ ret'.booking = b) =>
              IF bookings[b].status = "confirmed" /\ ret'.actor = ItemOwner(b)
              THEN /\ ret'.err = "nil"
                   /\ bookings' = [bookings EXCEPT ![b].status = "active"]
                   /\ UNCHANGED <<games, payments>>
              ELSE /\ ret'.err # "nil"
                   /\ ret'.actor # ItemOwner(b) => ret'.err = "ErrBookingNotOwned"
                   /\ UNCHANGED <<games, bookings, payments>>]_vars

\* The owner of the listing handed over a confirmed booking.
C16_Witness ==
    /\ ret.op = "ConfirmHandover"
    /\ ret.err = "nil"
    /\ ret.actor = ItemOwner(ret.booking)
    /\ bookings[ret.booking].status = "active"

C18_NoStageSkipped ==
    [][\A b \in DOMAIN bookings :
          /\ (bookings'[b].status = "active" /\ bookings[b].status # "active")
                => bookings[b].status = "confirmed"
          /\ (bookings'[b].status = "completed" /\ bookings[b].status # "completed")
                => bookings[b].status = "active"]_vars

UnknownTransaction(txn) == GetByProviderPaymentID(txn) = 0

AlreadyProcessed(txn) ==
    /\ GetByProviderPaymentID(txn) # 0
    /\ payments[GetByProviderPaymentID(txn)].status \in {"paid", "failed"}

\* C19: a webhook for an unknown transaction id or for a transaction that was
\* already processed is answered with success (200) and changes no booking,
\* payment or stock.
C19_WebhookAnomalyIsSuccess ==
    [][\A txn \in TxnIDs :
          (/\ ret'.op = "ProcessWebhook"
           /\ ret'.txn = txn
           /\ UnknownTransaction(txn) \/ AlreadyProcessed(txn))
          => /\ PaymentWebhook(ret'.err) = 200
             /\ UNCHANGED <<games, bookings, payments>>]_vars

(***************************************************************************)
(* Properties of stock edits (SpecEdit).                                   *)
(***************************************************************************)
\* C20: after an edit of a listing's total stock the listing still has
\* 0 <= available_stock <= stock, also when the new stock is below the
\* current available_stock or below the number of units out.
C20_EditKeepsStockBounds ==
    (ret.op \in {"UpdateStock", "UpdateGame"} /\ ret.err = "nil") =>
        /\ 0 <= games[ret.game].available_stock
        /\ games[ret.game].available_stock <= games[ret.game].stock

(***************************************************************************)
(* Properties of the pricing fields of a booking (SpecFrozen).             *)
(***************************************************************************)
Pricing(b) ==
    <<b.rental_days, b.daily_price, b.total_rental_price, b.security_deposit,
      b.total_amount>>

\* C21: once a booking is created, no operation changes its rental_days,
\* daily_price, total_rental_price, security_deposit or total_amount.
C21_PricingFrozen ==
    [][\A b \in DOMAIN bookings :
          /\ b \in DOMAIN bookings'
          /\ Pricing(bookings'[b]) = Pricing(bookings[b])]_vars

\* A booking that has left pending_payment while its listing's price and
\* deposit were edited to other values.
C21_Witness ==
    \E b \in DOMAIN bookings :
        /\ bookings[b].status \in {"confirmed", "cancelled", "completed"}
        /\ bookings[b].daily_price # games[bookings[b].game_id].rental_price_per_day
        /\ bookings[b].security_deposit # games[bookings[b].game_id].security_deposit

(***************************************************************************)
(* Properties of concurrent payment requests (SpecPay).                    *)
(***************************************************************************)
PaymentsOf(b) == {p \in DOMAIN payments : payments[p].booking_id = b}

\* C22: whatever CreatePayment calls were made for a booking, repeated or
\* at the same time, at most one payment row exists for it.
C22_OnePaymentPerBooking ==
    \A b \in DOMAIN bookings : Cardinality(PaymentsOf(b)) <= 1

(***************************************************************************)
(* Properties of user management (SpecUsers).                              *)
(***************************************************************************)
\* C23: DeleteUser by a requester whose role is not super_admin, admin
\* included, fails with ErrInsufficientPermission and deletes nothing.
C23_DeleteUserSuperAdminOnly ==
    [][\A requestor \in DOMAIN users, targetUserID \in AccountIDs :
          (users[requestor].role # "super_admin" /\ DeleteUser(requestor, targetUserID))
          => /\ ret'.err = "ErrInsufficientPermission"
             /\ users' = users]_vars

UserOps == {"UpdateUserRole", "ToggleUserStatus", "DeleteUser"}

\* C30: no call of UpdateUserRole, ToggleUserStatus or DeleteUser by a
\* requester whose role is admin makes a user super_admin, or changes the
\* role, active flag or existence of a user who is super_admin.
C30_AdminCannotTouchSuperAdmin ==
    [][(/\ ret'.op \in UserOps
        /\ ret'.actor \in DOMAIN users
        /\ users[ret'.actor].role = "admin")
       => \A id \in AccountIDs :
            /\ (id \in DOMAIN users /\ users[id].role = "super_admin")
                  => (id \in DOMAIN users' /\ users'[id] = users[id])
            /\ (id \in DOMAIN users' /\ users'[id].role = "super_admin")
                  => (id \in DOMAIN users /\ users[id].role = "super_admin")]_vars

(***************************************************************************)
(* Properties of the administration (SpecAdmin).                           *)
(***************************************************************************)
NonAdminRoles == Roles \ {"admin", "super_admin"}

\* The operations on categories and disputes reserved to administrators.
AdminOps ==
    {"CreateCategory", "UpdateCategory", "DeleteCategory", "ToggleCategoryStatus",
     "InvestigateDispute", "ResolveDispute", "CloseDispute"}

\* The step is a call of an operation reserved to administrators, made with a
\* role that is neither admin nor super_admin.
GatedCallByNonAdmin ==
    \/ ret'.op \in AdminOps /\ ret'.arg \in NonAdminRoles
    \/ /\ ret'.op \in UserOps
       /\ ret'.actor \in DOMAIN users
       /\ users[ret'.actor].role \in NonAdminRoles
    \/ \E role \in NonAdminRoles, b \in BookingIDs, status \in StatusUpdates :
          \/ UpdateStatus(role, b, status)
          \/ ForceUpdateBookingStatus(role, b, status)

RejectedBody ==
    \/ \E r \in RegisterBodies :
          ~(r.binds /\ ValidRegisterRequest(r)) /\ AuthRegister(r)
    \/ \E r \in LoginBodies : ~(r.binds /\ ValidLoginRequest(r)) /\ AuthLogin(r)

\* C25: a Register or Login request whose body fails validation is answered
\* 400 without a call of the user service: no user is created and no token is
\* issued.
C25_InvalidBodyNeverReachesService ==
    [][RejectedBody =>
          /\ ret'.code = 400
          /\ ret'.called = "none"
          /\ ret'.arg # "access_token"
          /\ UNCHANGED users]_vars

\* A Register body with a password too short was answered, and a registered
\* account exists.
C25_Witness ==
    /\ ret.op = "AuthHandler.Register"
    /\ ret.err = "Validation error"
    /\ ret.code = 400
    /\ "test@example.com" \in DOMAIN users

(***************************************************************************)
(* Properties of the webhook's order of writes.                            *)
(***************************************************************************)
\* The payment row the last webhook was about.
WebhookPayment == payments[GetByProviderPaymentID(ret.txn)]

\* C26: when a webhook has invoked ConfirmPayment its payment row was marked
\* paid before, and when it has invoked FailPayment the row was marked failed
\* before: whatever the booking call returned, the row is no longer pending.
C26_PaymentMarkedBeforeBookingCall ==
    (ret.op = "ProcessWebhook" /\ ret.called \in {"ConfirmPayment", "FailPayment"}) =>
        WebhookPayment.status = IF ret.called = "ConfirmPayment" THEN "paid" ELSE "failed"

(***************************************************************************)
(* Stock conservation under every operation run to completion.             *)
(***************************************************************************)
\* The units of an item that are out of its available stock.
UnitsOut(g) == games[g].stock - games[g].available_stock

\* C27: in every state, for every item, stock - available_stock is the number
\* of the item's bookings that hold a unit (pending_payment, confirmed or
\* active).
C27_StockConservation ==
    \A g \in DOMAIN games : UnitsOut(g) = Held(g)

(***************************************************************************)
(* Properties of a failed Create (SpecInsert).                             *)
(***************************************************************************)
\* C28: a Create or CreateBooking that returns an error leaves the
\* available_stock of every item as it was before the call, also when the
\* error is the failure to insert the booking row after the reservation.
C28_FailedCreateLeaksNoUnit ==
    [][(ret'.op \in {"Create", "CreateBooking"} /\ ret'.err # "nil") =>
          \A g \in DOMAIN games : games'[g].available_stock = games[g].available_stock]_vars

(***************************************************************************)
(* Payments and bookings after a webhook.                                  *)
(***************************************************************************)
\* The booking a payment row belongs to has been paid for.
PaidBookingStatuses == {"confirmed", "active", "completed"}

\* C29: in the state a webhook leaves behind, every payment with status paid
\* belongs to a booking that is confirmed, active or completed.
C29_PaidPaymentHasConfirmedBooking ==
    ret.op = "ProcessWebhook" =>
        \A p \in DOMAIN payments :
            payments[p].status = "paid" =>
                bookings[payments[p].booking_id].status \in PaidBookingStatuses

====
